---- MODULE Spec2Model ----
(***************************************************************************)
(* Model of the interview-arena backend: the session registry and the      *)
(* concurrent stream merger of services/challenger_service.py, driven by   *)
(* the HTTP handlers of routers/competition.py.                            *)
(*                                                                         *)
(* Scheduling is asyncio's: one thread, control changes hands only at an   *)
(* await or a yield.  Each action below is one such atomic stretch of code.*)
(* Text is a sequence of tokens; the token ERROR_MARKER stands for the     *)
(* ten characters "__ERROR__:".  An optional value (Python's None or a     *)
(* value) is a sequence of length 0 or 1.                                  *)
(***************************************************************************)
EXTENDS Integers, Sequences, FiniteSets, TLC

VARIABLES
    sessions,      \* _sessions: session_id -> CompetitionSession
    nextId,        \* number of session ids issued so far (uuid4 is fresh)
    runSession,    \* session_id the stream request was made for (0: none yet)
    mpc,           \* position of merge_challenger_streams
    rpc,           \* position of each run_challenger task
    hung,          \* the upstream endpoint of a challenger stopped responding
    delivered,     \* fragments each upstream endpoint delivered, in order
    timing,        \* the ChallengerTiming object of each stream_challenger_response
    timingRef,     \* alpha_timing / beta_timing is bound (not None)
    answer,        \* alpha_answer / beta_answer
    error,         \* alpha_error / beta_error
    complete,      \* alpha_complete / beta_complete
    event_queue,   \* event_queue: asyncio.Queue (unbounded FIFO)
    emitted,       \* events the generator has yielded to its consumer, in order
    now,           \* time.time(), in milliseconds
    start_time,    \* start_time of merge_challenger_streams
    created,       \* history: session_id -> the request create_session was called for
    others,        \* further merge runs, started while runSession's run exists
    judgeIn,       \* the scoring response of the last judge call
    judgeOut       \* what the last judge call returned to its caller

regVars == <<sessions, nextId, created>>
sideVars == <<others, judgeIn, judgeOut>>
runnerVars == <<rpc, hung, delivered, timing, timingRef, answer, error, complete>>
vars == <<sessions, nextId, runSession, mpc, rpc, hung, delivered, timing,
          timingRef, answer, error, complete, event_queue, emitted, now,
          start_time, created, others, judgeIn, judgeOut>>

----------------------------------------------------------------------------
(* Bounds of the model *)

\* Fragments the two endpoints deliver in one run, both together
MaxFrags == 2
\* Sessions created in the life of the process
MaxSessions == 1
\* Stream requests for a session that is already being streamed
MaxRestreams == 1
\* Largest value of the clock
MaxTime == 1

----------------------------------------------------------------------------
(* Values *)

None == <<>>
Some(x) == <<x>>

Challengers == {"alpha", "beta"}
Other(c) == IF c = "alpha" THEN "beta" ELSE "alpha"

ERROR_MARKER == "__ERROR__:"

\* delta.content values the endpoint may stream: empty, plain text, and text
\* that itself begins with the characters of the marker.
Contents == {<<>>, <<"a">>, <<"b">>, <<ERROR_MARKER, "a">>}

\* str(e) of the exceptions the endpoint call may raise; str(e) may be empty.
Messages == {<<>>, <<"boom">>}

\* A field of a session-creation request: missing, empty, or the text v.
Fields(v) == {None, Some(""), Some(v)}

\* Session-creation requests: at most one field is missing or empty.
Requests ==
    {req \in [question : Fields("q"), resume : Fields("r"),
              job_description : Fields("j")] :
        Cardinality({f \in DOMAIN req : req[f] \in {None, Some("")}}) <= 1}

\* The requests that pass validation
ValidRequests ==
    {req \in Requests : \A f \in DOMAIN req : req[f] \notin {None, Some("")}}

\* Session ids a request may name; the last one is never issued.
SessionIds == 1..(MaxSessions + 1)

challenger_alpha_model == "openai/gpt-5.2-chat"
challenger_beta_model == "deepseek/deepseek-v3.2"
ModelOf(c) == IF c = "alpha" THEN challenger_alpha_model ELSE challenger_beta_model

----------------------------------------------------------------------------
(* String operations of the code *)

\* content.startswith("__ERROR__:")
StartsWithMarker(content) == Len(content) > 0 /\ content[1] = ERROR_MARKER

\* content.replace("__ERROR__:", ""): every occurrence is removed
StripMarker(content) == SelectSeq(content, LAMBDA t : t # ERROR_MARKER)

\* f"__ERROR__:{str(e)}"
MarkerContent(msg) == <<ERROR_MARKER>> \o msg

\* Python truthiness of a str | None
Truthy(opt) == opt # None /\ Len(opt[1]) > 0

----------------------------------------------------------------------------
(* ChallengerTiming *)

NewTiming(t) ==
    [start_time |-> t, first_token_time |-> None, complete_time |-> None,
     total_tokens |-> 0]

first_token_ms(tm) ==
    IF tm.first_token_time = None THEN None
    ELSE Some(tm.first_token_time[1] - tm.start_time)

complete_ms(tm) ==
    IF tm.complete_time = None THEN None
    ELSE Some(tm.complete_time[1] - tm.start_time)

\* total_tokens / duration, kept as the pair <<tokens, duration in ms>>
tokens_per_second(tm) ==
    IF tm.complete_time = None \/ tm.total_tokens = 0 THEN None
    ELSE IF tm.complete_time[1] - tm.start_time = 0 THEN None
    ELSE Some(<<tm.total_tokens, tm.complete_time[1] - tm.start_time>>)

----------------------------------------------------------------------------
(* Session registry *)

CompetitionSession(q, r, j, t) ==
    [question |-> q, resume |-> r, job_description |-> j,
     alpha_result |-> None, beta_result |-> None, created_at |-> t]

\* Mutant of create_session: question and resume change places
create_session_Swapped(reg, sid, q, r, j, t) ==
    IF sid \in DOMAIN reg
    THEN [reg EXCEPT ![sid] = CompetitionSession(r, q, j, t)]
    ELSE reg @@ (sid :> CompetitionSession(r, q, j, t))

create_session(reg, sid, q, r, j, t) ==
    IF sid \in DOMAIN reg
    THEN [reg EXCEPT ![sid] = CompetitionSession(q, r, j, t)]
    ELSE reg @@ (sid :> CompetitionSession(q, r, j, t))

get_session(reg, sid) == IF sid \in DOMAIN reg THEN Some(reg[sid]) ELSE None

\* Mutant of update_session_result: the result goes into both slots
update_session_result_Both(reg, sid, c, result) ==
    IF sid \in DOMAIN reg
    THEN [reg EXCEPT ![sid].alpha_result = Some(result),
                     ![sid].beta_result = Some(result)]
    ELSE reg

\* Defined by the service; no handler and no part of the merge calls it.
update_session_result(reg, sid, c, result) ==
    IF sid \in DOMAIN reg
    THEN IF c = "alpha"
         THEN [reg EXCEPT ![sid].alpha_result = Some(result)]
         ELSE [reg EXCEPT ![sid].beta_result = Some(result)]
    ELSE reg

\* Mutant of ValidField: an empty text passes
ValidField_AllowEmpty(f) == f # None

\* CompetitionRequest: each field required, min_length = 1
ValidField(f) == f # None /\ Len(f[1]) >= 1

\* The body get_competition_status returns, or the 404
get_competition_status(sid) ==
    IF get_session(sessions, sid) = None
    THEN [status |-> 404]
    ELSE [status |-> 200, session_id |-> sid,
          question |-> sessions[sid].question,
          alpha_result |-> sessions[sid].alpha_result,
          beta_result |-> sessions[sid].beta_result,
          created_at |-> sessions[sid].created_at]

----------------------------------------------------------------------------
(* Initial state: an empty registry, no stream requested *)

Init ==
    /\ sessions = <<>>
    /\ nextId = 0
    /\ runSession = 0
    /\ mpc = "none"
    /\ rpc = [c \in Challengers |-> "none"]
    /\ hung = [c \in Challengers |-> FALSE]
    /\ delivered = [c \in Challengers |-> <<>>]
    /\ timing = [c \in Challengers |-> NewTiming(0)]
    /\ timingRef = [c \in Challengers |-> FALSE]
    /\ answer = [c \in Challengers |-> <<>>]
    /\ error = [c \in Challengers |-> None]
    /\ complete = [c \in Challengers |-> FALSE]
    /\ event_queue = <<>>
    /\ emitted = <<>>
    /\ now = 0
    /\ start_time = 0
    /\ created = <<>>
    /\ others = <<>>
    /\ judgeIn = None
    /\ judgeOut = None

----------------------------------------------------------------------------
(* HTTP handlers of routers/competition.py *)

\* POST /competition: pydantic rejects the request (422) before the handler
\* runs unless every field is present and non-empty.
create_competition(q, r, j) ==
    /\ IF ValidField(q) /\ ValidField(r) /\ ValidField(j)
       THEN /\ nextId < MaxSessions
            /\ nextId' = nextId + 1
            /\ sessions' = create_session(sessions, nextId + 1, q[1], r[1], j[1], now)
            /\ created' = created @@ ((nextId + 1) :>
                              [question |-> q, resume |-> r, job_description |-> j])
       ELSE UNCHANGED regVars
    /\ UNCHANGED <<sideVars, runSession, mpc, runnerVars, event_queue, emitted, now,
                   start_time>>

\* GET /competition/{session_id}/stream: 404 for an unknown id; otherwise a
\* StreamingResponse over event_generator(), which has not run any code yet.
\* Nothing is looked up but the session: the first response's merge run is
\* the one followed step by step, a later one is recorded in others.
\* Mutant of stream_competition: the lookup of the session is skipped
stream_competition_NoLookup(sid) ==
    /\ mpc = "none"
    /\ runSession' = sid
    /\ mpc' = "created"
    /\ UNCHANGED <<regVars, sideVars, runnerVars, event_queue, emitted, now, start_time>>

stream_competition(sid) ==
    /\ IF get_session(sessions, sid) = None
       THEN UNCHANGED <<runSession, mpc, others>>
       ELSE IF mpc = "none"
            THEN /\ runSession' = sid
                 /\ mpc' = "created"
                 /\ UNCHANGED others
            ELSE /\ Len(others) < MaxRestreams
                 /\ others' = Append(others, [session |-> sid, pc |-> "created"])
                 /\ UNCHANGED <<runSession, mpc>>
    /\ UNCHANGED <<regVars, judgeIn, judgeOut, runnerVars, event_queue, emitted, now,
                   start_time>>

\* A consumer that streams a session once: no stream request for a known
\* session after the first one.
first_stream_request(sid) ==
    /\ mpc = "none" \/ get_session(sessions, sid) = None
    /\ stream_competition(sid)

\* The stream endpoint's status code
stream_competition_status(sid) ==
    IF get_session(sessions, sid) = None THEN 404 ELSE 200

\* GET /competition/{session_id}: reads the registry only
status_request(sid) ==
    /\ get_competition_status(sid).status \in {200, 404}
    /\ UNCHANGED vars

----------------------------------------------------------------------------
(* stream_challenger_response and run_challenger: one task per challenger *)

ChunkEvent(c, content) ==
    [type |-> "chunk", challenger |-> c, content |-> content,
     elapsed_ms |-> now - start_time]

ErrorEvent(c, msg) == [type |-> "error", challenger |-> c, message |-> msg]

\* Mutant of QueuePut: the new item goes to the front of the queue
QueuePut_Front(q, ev) == <<ev>> \o q

\* event_queue.put(ev) on an unbounded queue: appended at once, never blocks
QueuePut(q, ev) == Append(q, ev)

\* Mutant of RunChallengerItem: the text is added to the other answer
RunChallengerItem_WrongSlot(c, content) ==
    /\ timingRef' = [timingRef EXCEPT ![c] = TRUE]
    /\ IF StartsWithMarker(content)
       THEN /\ error' = [error EXCEPT ![c] = Some(StripMarker(content))]
            /\ event_queue' = QueuePut(event_queue, ErrorEvent(c, StripMarker(content)))
            /\ UNCHANGED answer
       ELSE /\ answer' = [answer EXCEPT ![Other(c)] = @ \o content]
            /\ event_queue' = QueuePut(event_queue, ChunkEvent(c, content))
            /\ UNCHANGED error

\* The body of run_challenger's loop for one tuple (cid, content, timing)
\* yielded by stream_challenger_response.
RunChallengerItem(c, content) ==
    /\ timingRef' = [timingRef EXCEPT ![c] = TRUE]
    /\ IF StartsWithMarker(content)
       THEN /\ error' = [error EXCEPT ![c] = Some(StripMarker(content))]
            /\ event_queue' = QueuePut(event_queue, ErrorEvent(c, StripMarker(content)))
            /\ UNCHANGED answer
       ELSE /\ answer' = [answer EXCEPT ![c] = @ \o content]
            /\ event_queue' = QueuePut(event_queue, ChunkEvent(c, content))
            /\ UNCHANGED error

\* The task starts: the timing object is created and the request is sent;
\* the task then waits for the endpoint.
RunnerStart(c) ==
    /\ rpc[c] = "idle"
    /\ rpc' = [rpc EXCEPT ![c] = "streaming"]
    /\ timing' = [timing EXCEPT ![c] = NewTiming(now)]
    /\ UNCHANGED <<regVars, sideVars, runSession, mpc, hung, delivered, timingRef, answer,
                   error, complete, event_queue, emitted, now, start_time>>

\* Mutant of UpstreamChunk: every fragment overwrites first_token_time
UpstreamChunk_Overwrite(c, content) ==
    /\ rpc[c] = "streaming" /\ ~hung[c]
    /\ Len(delivered["alpha"]) + Len(delivered["beta"]) < MaxFrags
    /\ IF content = <<>>
       THEN UNCHANGED <<delivered, timing, timingRef, answer, error, event_queue>>
       ELSE /\ delivered' = [delivered EXCEPT ![c] = Append(@, content)]
            /\ timing' = [timing EXCEPT
                   ![c].first_token_time = Some(now),
                   ![c].total_tokens = @ + 1]
            /\ RunChallengerItem(c, content)
    /\ UNCHANGED <<regVars, sideVars, runSession, mpc, rpc, hung, complete, emitted, now,
                   start_time>>

\* The endpoint delivers one chunk.  A chunk without content is skipped; any
\* other is counted, yielded and handled by run_challenger.
UpstreamChunk(c, content) ==
    /\ rpc[c] = "streaming" /\ ~hung[c]
    /\ Len(delivered["alpha"]) + Len(delivered["beta"]) < MaxFrags
    /\ IF content = <<>>
       THEN UNCHANGED <<delivered, timing, timingRef, answer, error, event_queue>>
       ELSE /\ delivered' = [delivered EXCEPT ![c] = Append(@, content)]
            /\ timing' = [timing EXCEPT
                   ![c].first_token_time =
                       IF @ = None THEN Some(now) ELSE @,
                   ![c].total_tokens = @ + 1]
            /\ RunChallengerItem(c, content)
    /\ UNCHANGED <<regVars, sideVars, runSession, mpc, rpc, hung, complete, emitted, now,
                   start_time>>

\* The endpoint's stream ends: complete_time is recorded, the generator and
\* the loop over it end, and the finally clause sets the completion flag.
UpstreamEnd(c) ==
    /\ rpc[c] = "streaming" /\ ~hung[c]
    /\ timing' = [timing EXCEPT ![c].complete_time = Some(now)]
    /\ rpc' = [rpc EXCEPT ![c] = "completed"]
    /\ complete' = [complete EXCEPT ![c] = TRUE]
    /\ UNCHANGED <<regVars, sideVars, runSession, mpc, hung, delivered, timingRef, answer,
                   error, event_queue, emitted, now, start_time>>

\* The request or the stream raises e with str(e) = msg: complete_time is
\* recorded, the marker tuple is yielded and handled by run_challenger, the
\* generator ends, and the finally clause sets the completion flag.
UpstreamFail(c, msg) ==
    /\ rpc[c] = "streaming" /\ ~hung[c]
    /\ timing' = [timing EXCEPT ![c].complete_time = Some(now)]
    /\ RunChallengerItem(c, MarkerContent(msg))
    /\ rpc' = [rpc EXCEPT ![c] = "failed"]
    /\ complete' = [complete EXCEPT ![c] = TRUE]
    /\ UNCHANGED <<regVars, sideVars, runSession, mpc, hung, delivered, emitted, now,
                   start_time>>

\* The endpoint stops responding for good; nothing times the request out.
UpstreamHang(c) ==
    /\ rpc[c] = "streaming" /\ ~hung[c]
    /\ hung' = [hung EXCEPT ![c] = TRUE]
    /\ UNCHANGED <<regVars, sideVars, runSession, mpc, rpc, delivered, timing, timingRef,
                   answer, error, complete, event_queue, emitted, now, start_time>>

----------------------------------------------------------------------------
(* merge_challenger_streams: the generator the consumer iterates *)

\* Mutant of TimingSummary: failed is the truthiness of the error text
TimingSummary_Truthy(c) ==
    [model |-> ModelOf(c),
     first_token_ms |-> IF timingRef[c] THEN first_token_ms(timing[c]) ELSE None,
     complete_ms |-> IF timingRef[c] THEN complete_ms(timing[c]) ELSE None,
     total_tokens |-> IF timingRef[c] THEN timing[c].total_tokens ELSE 0,
     tokens_per_second |->
         IF timingRef[c] THEN tokens_per_second(timing[c]) ELSE None,
     failed |-> Truthy(error[c]),
     error |-> error[c]]

TimingSummary(c) ==
    [model |-> ModelOf(c),
     first_token_ms |-> IF timingRef[c] THEN first_token_ms(timing[c]) ELSE None,
     complete_ms |-> IF timingRef[c] THEN complete_ms(timing[c]) ELSE None,
     total_tokens |-> IF timingRef[c] THEN timing[c].total_tokens ELSE 0,
     tokens_per_second |->
         IF timingRef[c] THEN tokens_per_second(timing[c]) ELSE None,
     failed |-> error[c] # None,
     error |-> error[c]]

\* alpha_answer if not alpha_error else None
FinalAnswer(c) == IF ~Truthy(error[c]) THEN Some(answer[c]) ELSE None

CompleteEvent ==
    [type |-> "complete",
     timing |-> [c \in Challengers |-> TimingSummary(c)],
     answers |-> [c \in Challengers |-> FinalAnswer(c)]]

\* Mutant of LoopExit: the loop ends as soon as either flag is set
LoopExit_Either == complete["alpha"] \/ complete["beta"]

\* while not (alpha_complete and beta_complete)
LoopExit == complete["alpha"] /\ complete["beta"]

\* Mutant of QueueHead: get returns the newest item
QueueHead_Newest(q) == q[Len(q)]

\* event_queue.get(): the oldest item
QueueHead(q) == Head(q)
QueueRest(q) == Tail(q)

\* Mutant of DrainStep: the complete event is yielded before the drain
DrainStep_CompleteFirst ==
    /\ emitted' = Append(emitted, CompleteEvent)
    /\ mpc' = IF event_queue # <<>> THEN "loop_yield" ELSE "complete_yield"
    /\ UNCHANGED event_queue

\* The drain loop and what follows it, up to the next yield: the oldest
\* queued event if there is one, else (the tasks being done) the complete event.
DrainStep ==
    IF event_queue # <<>>
    THEN /\ emitted' = Append(emitted, QueueHead(event_queue))
         /\ event_queue' = QueueRest(event_queue)
         /\ mpc' = "drain_yield"
    ELSE /\ emitted' = Append(emitted, CompleteEvent)
         /\ mpc' = "complete_yield"
         /\ UNCHANGED event_queue

\* The loop test, then either a new bounded wait or the drain.
LoopStep ==
    IF LoopExit
    THEN DrainStep
    ELSE /\ mpc' = "waiting"
         /\ UNCHANGED <<event_queue, emitted>>

\* The consumer's first request for an event: start_time, the state, the
\* queue and the two tasks are created, and the loop is entered.
MergeStart ==
    /\ mpc = "created"
    /\ start_time' = now
    /\ rpc' = [c \in Challengers |-> "idle"]
    /\ mpc' = "waiting"
    /\ UNCHANGED <<regVars, sideVars, runSession, hung, delivered, timing, timingRef, answer,
                   error, complete, event_queue, emitted, now>>

\* wait_for(event_queue.get(), 0.1) returns an item, which is yielded.
MergeGet ==
    /\ mpc = "waiting"
    /\ event_queue # <<>>
    /\ emitted' = Append(emitted, QueueHead(event_queue))
    /\ event_queue' = QueueRest(event_queue)
    /\ mpc' = "loop_yield"
    /\ UNCHANGED <<regVars, sideVars, runSession, runnerVars, now, start_time>>

\* Mutant of MergeTimeout: the wait has no timeout, the loop test is not redone
MergeTimeout_NoTimeout ==
    /\ mpc = "waiting"
    /\ UNCHANGED vars

\* wait_for times out: continue, that is, the loop test again.
MergeTimeout ==
    /\ mpc = "waiting"
    /\ LoopStep
    /\ UNCHANGED <<regVars, sideVars, runSession, runnerVars, now, start_time>>

\* The consumer asks for the next event while the generator is suspended at
\* a yield: the generator resumes after that yield.
ConsumerNext ==
    /\ mpc \in {"loop_yield", "drain_yield", "complete_yield"}
    /\ CASE mpc = "loop_yield" -> LoopStep
         [] mpc = "drain_yield" -> DrainStep
         [] mpc = "complete_yield" ->
                /\ mpc' = "closed"
                /\ UNCHANGED <<event_queue, emitted>>
    /\ UNCHANGED <<regVars, sideVars, runSession, runnerVars, now, start_time>>

\* Mutant of ConsumerDisconnect: the disconnect cancels the two tasks
ConsumerDisconnect_Cancel ==
    /\ mpc \in {"waiting", "loop_yield", "drain_yield"}
    /\ mpc' = "abandoned"
    /\ rpc' = [c \in Challengers |->
                 IF rpc[c] \in {"idle", "streaming"} THEN "cancelled" ELSE rpc[c]]
    /\ UNCHANGED <<regVars, sideVars, runSession, hung, delivered, timing, timingRef,
                   answer, error, complete, event_queue, emitted, now, start_time>>

\* The consumer disconnects: the generator is never resumed again.  Nothing
\* cancels the two tasks.
ConsumerDisconnect ==
    /\ mpc \in {"waiting", "loop_yield", "drain_yield"}
    /\ mpc' = "abandoned"
    /\ UNCHANGED <<regVars, sideVars, runSession, runnerVars, event_queue, emitted, now,
                   start_time>>

----------------------------------------------------------------------------
(* Specification *)

\* The requests that are rejected change nothing; they are left to ApiNext.
Next ==
    \/ \E req \in ValidRequests :
          create_competition(req.question, req.resume, req.job_description)
    \/ \E sid \in 1..MaxSessions : first_stream_request(sid)
    \/ \E sid \in 1..MaxSessions : status_request(sid)
    \/ \E c \in Challengers : RunnerStart(c)
    \/ \E c \in Challengers : \E content \in Contents : UpstreamChunk(c, content)
    \/ \E c \in Challengers : UpstreamEnd(c)
    \/ \E c \in Challengers : \E msg \in Messages : UpstreamFail(c, msg)
    \/ \E c \in Challengers : UpstreamHang(c)
    \/ MergeStart
    \/ MergeGet
    \/ MergeTimeout
    \/ ConsumerNext
    \/ ConsumerDisconnect

Spec == Init /\ [][Next]_vars

\* The bounded wait always ends, with an item or with the timeout, and the
\* consumer asks for the next event as long as it is connected.  Nothing is
\* assumed of the endpoints or of the consumer staying connected.
FairSpec ==
    /\ Spec
    /\ WF_vars(MergeGet \/ MergeTimeout)
    /\ WF_vars(ConsumerNext)

----------------------------------------------------------------------------
(* Every request, the rejected ones included *)

\* Next already holds the valid creation requests and the stream and status
\* requests for the ids 1..MaxSessions, issued or not yet issued.
ApiNext ==
    \/ Next
    \/ \E req \in Requests \ ValidRequests :
          create_competition(req.question, req.resume, req.job_description)
    \/ \E sid \in SessionIds \ (1..MaxSessions) : first_stream_request(sid)
    \/ \E sid \in SessionIds \ (1..MaxSessions) : status_request(sid)

ApiSpec == Init /\ [][ApiNext]_vars

----------------------------------------------------------------------------
(* Reading the emitted stream *)

IsChunkOf(ev, c) == ev.type = "chunk" /\ ev.challenger = c
IsErrorOf(ev, c) == ev.type = "error" /\ ev.challenger = c
IsComplete(ev) == ev.type = "complete"

Positions(seq, P(_)) == {i \in 1..Len(seq) : P(seq[i])}

\* The contents of c's chunk events in seq, in order
ChunkContents(seq, c) ==
    LET s == SelectSeq(seq, LAMBDA ev : IsChunkOf(ev, c))
    IN [i \in 1..Len(s) |-> s[i].content]

RECURSIVE Concat(_)
Concat(ss) == IF ss = <<>> THEN <<>> ELSE Head(ss) \o Concat(Tail(ss))

CompleteEmitted == Positions(emitted, IsComplete) # {}

\* The complete event of the stream, once emitted
TheComplete == emitted[CHOOSE i \in Positions(emitted, IsComplete) : TRUE]

StreamEnded == mpc \in {"complete_yield", "closed"}

----------------------------------------------------------------------------
(* C1 *)

\* C1: the emitted sequence never holds more than one complete event, a
\* complete event is always the last event emitted (no chunk or error follows
\* it), and a stream that has ended holds exactly one.
C1_OneCompleteAlwaysLast ==
    /\ Cardinality(Positions(emitted, IsComplete)) <= 1
    /\ \A i \in Positions(emitted, IsComplete) : i = Len(emitted)
    /\ StreamEnded => Cardinality(Positions(emitted, IsComplete)) = 1

\* A stream that ended after chunks and an error were emitted
C1_Witness ==
    /\ mpc = "closed"
    /\ \E i, j \in 1..Len(emitted) :
          emitted[i].type = "chunk" /\ emitted[j].type = "error"
    /\ IsComplete(emitted[Len(emitted)])

----------------------------------------------------------------------------
(* C2 *)

\* C2: in the complete event, a challenger whose failure flag is true has a
\* null answer.
C2_FailedAnswerIsNull ==
    CompleteEmitted =>
        \A c \in Challengers :
            TheComplete.timing[c].failed => TheComplete.answers[c] = None

----------------------------------------------------------------------------
(* C3 *)

\* C3: once the complete event of the stream for a session is emitted, the
\* status of that session holds both results, and their answers are the
\* answers of the complete event.
C3_StatusMatchesComplete ==
    CompleteEmitted =>
        LET st == get_competition_status(runSession)
        IN /\ st.status = 200
           /\ st.alpha_result # None
           /\ st.beta_result # None
           /\ Some(st.alpha_result[1].answer) = TheComplete.answers["alpha"]
           /\ Some(st.beta_result[1].answer) = TheComplete.answers["beta"]

----------------------------------------------------------------------------
(* C4 *)

IsPlain(f) == f[1] # ERROR_MARKER

\* C4: when both producers end normally after N1 and N2 fragments, the
\* stream is N1+N2 chunk events followed by one complete event whose
\* total_tokens are N1 and N2.
C4_ChunkCountsWhenNeitherFails ==
    (StreamEnded /\ rpc["alpha"] = "completed" /\ rpc["beta"] = "completed") =>
        LET n == Len(delivered["alpha"]) + Len(delivered["beta"])
        IN /\ Len(emitted) = n + 1
           /\ \A i \in 1..n : emitted[i].type = "chunk"
           /\ IsComplete(emitted[n + 1])
           /\ \A c \in Challengers :
                 TheComplete.timing[c].total_tokens = Len(delivered[c])

\* C4, for fragments none of which begins with the marker's characters
C4_PlainText ==
    (\A c \in Challengers : \A i \in 1..Len(delivered[c]) : IsPlain(delivered[c][i]))
        => C4_ChunkCountsWhenNeitherFails

----------------------------------------------------------------------------
(* C5 *)

C5_OneFailsOtherEnds(a, b) ==
    (StreamEnded /\ rpc[a] = "failed" /\ rpc[b] = "completed") =>
        /\ Cardinality(Positions(emitted, IsComplete)) = 1
        /\ TheComplete.answers[a] = None
        /\ TheComplete.timing[a].failed
        /\ ~TheComplete.timing[b].failed
        /\ TheComplete.answers[b] = Some(Concat(delivered[b]))
        /\ ChunkContents(emitted, b) = delivered[b]

\* C5: when one producer fails after k fragments and the other ends
\* normally, the stream ends with one complete event in which the failed
\* challenger has a null answer and failed = true, and the other has
\* failed = false and all its fragments as its answer, each of them having
\* been emitted as a chunk event; for either choice of the failing challenger.
C5_FailureIsolated ==
    /\ C5_OneFailsOtherEnds("alpha", "beta")
    /\ C5_OneFailsOtherEnds("beta", "alpha")

\* C5, for non-empty failure messages and fragments none of which begins
\* with the marker's characters
C5_PlainText ==
    (/\ \A c \in Challengers : \A i \in 1..Len(delivered[c]) : IsPlain(delivered[c][i])
     /\ \A c \in Challengers : error[c] # Some(<<>>))
        => C5_FailureIsolated

----------------------------------------------------------------------------
(* C6 *)

\* C6: when both producers fail, the stream ends with exactly one complete
\* event, in which both answers are null and both failure flags are true.
C6_BothFail ==
    (StreamEnded /\ rpc["alpha"] = "failed" /\ rpc["beta"] = "failed") =>
        /\ Cardinality(Positions(emitted, IsComplete)) = 1
        /\ \A c \in Challengers :
              /\ TheComplete.answers[c] = None
              /\ TheComplete.timing[c].failed

\* C6, for non-empty failure messages
C6_NonEmptyMessages ==
    (\A c \in Challengers : error[c] # Some(<<>>)) => C6_BothFail

----------------------------------------------------------------------------
(* C7 *)

\* C7: a step that emits the complete event is taken only with both runners
\* terminal and the queue empty, and a step that emits a chunk or an error
\* event leaves the stream open.
C7_CompleteOnlyWhenDrained ==
    [][Len(emitted') > Len(emitted) =>
         IF IsComplete(emitted'[Len(emitted')])
         THEN /\ rpc["alpha"] \in {"completed", "failed"}
              /\ rpc["beta"] \in {"completed", "failed"}
              /\ complete["alpha"] /\ complete["beta"]
              /\ event_queue = <<>> /\ event_queue' = <<>>
         ELSE mpc' \in {"loop_yield", "drain_yield"}]_vars

\* The complete event was emitted after a chunk and an error event
C7_Witness ==
    /\ CompleteEmitted
    /\ \E i, j \in 1..Len(emitted) :
          emitted[i].type = "chunk" /\ emitted[j].type = "error"

----------------------------------------------------------------------------
(* C8 *)

\* C8: for each challenger, the contents of its chunk events, emitted and
\* still queued, are its fragments that were queued as chunks, in the order
\* the endpoint delivered them.
C8_PerChallengerOrder ==
    \A c \in Challengers :
        ChunkContents(emitted \o event_queue, c) =
            SelectSeq(delivered[c], LAMBDA f : f[1] # ERROR_MARKER)

\* Two different fragments of one challenger were emitted with an event of
\* the other challenger between them
C8_Witness ==
    \E c \in Challengers : \E i, j, k \in 1..Len(emitted) :
        /\ i < j /\ j < k
        /\ IsChunkOf(emitted[i], c) /\ IsChunkOf(emitted[k], c)
        /\ emitted[i].content # emitted[k].content
        /\ emitted[j].type \in {"chunk", "error"}
        /\ emitted[j].challenger = Other(c)

----------------------------------------------------------------------------
(* C9 *)

\* C9: once both completion flags are set, the complete event is eventually
\* emitted, unless the consumer disconnects first.
C9_EventuallyComplete ==
    (complete["alpha"] /\ complete["beta"]) ~> (CompleteEmitted \/ mpc = "abandoned")

\* Both runners are done while the loop is in its bounded wait on an empty
\* queue
C9_Witness ==
    /\ complete["alpha"] /\ complete["beta"]
    /\ mpc = "waiting"
    /\ event_queue = <<>>

----------------------------------------------------------------------------
(* C10 *)

\* C10: while one endpoint never responds, no complete event is emitted, and
\* once the other runner is terminal and the queue is empty with the
\* consumer connected, every fragment of the other endpoint has been emitted
\* as a chunk event.
C10_HungUpstream ==
    \A h \in Challengers :
        hung[h] =>
            /\ ~CompleteEmitted
            /\ (/\ rpc[Other(h)] \in {"completed", "failed"}
                /\ event_queue = <<>>
                /\ mpc # "abandoned")
                   => ChunkContents(emitted, Other(h)) = delivered[Other(h)]

\* C10, for fragments none of which begins with the marker's characters
C10_PlainText ==
    (\A c \in Challengers : \A i \in 1..Len(delivered[c]) : IsPlain(delivered[c][i]))
        => C10_HungUpstream

\* C10: with one endpoint hung, the other runner's events are all emitted
\* unless the consumer disconnects.
C10_OtherStillDelivered ==
    \A h \in Challengers :
        (hung[h] /\ event_queue # <<>>) ~> (event_queue = <<>> \/ mpc = "abandoned")

----------------------------------------------------------------------------
(* C11: stream requests for a session that is already being streamed *)

\* The merge run of a later StreamingResponse starts: its own queue and its
\* own pair of run_challenger tasks are created.
OtherMergeStart(i) ==
    /\ i \in 1..Len(others)
    /\ others[i].pc = "created"
    /\ others' = [others EXCEPT ![i].pc = "running"]
    /\ UNCHANGED <<regVars, judgeIn, judgeOut, runSession, mpc, runnerVars,
                   event_queue, emitted, now, start_time>>

\* That run's two tasks end and its complete event is consumed.
OtherMergeEnd(i) ==
    /\ i \in 1..Len(others)
    /\ others[i].pc = "running"
    /\ others' = [others EXCEPT ![i].pc = "closed"]
    /\ UNCHANGED <<regVars, judgeIn, judgeOut, runSession, mpc, runnerVars,
                   event_queue, emitted, now, start_time>>

\* Consumers that may stream a session again at any time
RestreamNext ==
    \/ Next
    \/ \E sid \in 1..MaxSessions : stream_competition(sid)
    \/ \E i \in 1..MaxRestreams : OtherMergeStart(i)
    \/ \E i \in 1..MaxRestreams : OtherMergeEnd(i)

RestreamSpec == Init /\ [][RestreamNext]_vars

\* The merge runs of session sid whose runner tasks exist and whose stream
\* has not ended
ActiveRuns(sid) ==
    (IF runSession = sid /\ mpc \in {"waiting", "loop_yield", "drain_yield",
                                      "complete_yield"}
     THEN {0} ELSE {})
    \cup {i \in 1..Len(others) : others[i].session = sid /\ others[i].pc = "running"}

\* C11: a session has at most one merge run active at any time.
C11_AtMostOneActiveRun ==
    \A sid \in SessionIds : Cardinality(ActiveRuns(sid)) <= 1

----------------------------------------------------------------------------
(* C12 *)

\* C12: after the consumer has stopped reading, each runner is still a live
\* task: one that has not started can start, and one that is waiting for
\* its endpoint can take the endpoint's next fragment, its end or its
\* failure, whatever the queue holds.
C12_RunnersOutliveConsumer ==
    mpc = "abandoned" =>
        \A c \in Challengers :
            /\ rpc[c] \in {"idle", "streaming", "completed", "failed"}
            /\ rpc[c] = "idle" => ENABLED RunnerStart(c)
            /\ (rpc[c] = "streaming" /\ ~hung[c]) =>
                  /\ ENABLED UpstreamEnd(c)
                  /\ ENABLED UpstreamFail(c, <<"boom">>)
                  /\ (Len(delivered["alpha"]) + Len(delivered["beta"]) < MaxFrags
                         => ENABLED UpstreamChunk(c, <<"a">>))

\* The consumer has gone, nothing was ever taken from the queue, and both
\* runners have run to their end, their events left in the queue
C12_Witness ==
    /\ mpc = "abandoned"
    /\ emitted = <<>>
    /\ Len(event_queue) >= 2
    /\ \A c \in Challengers : rpc[c] \in {"completed", "failed"} /\ complete[c]

----------------------------------------------------------------------------
(* C13 *)

\* ChallengerResult values a caller of update_session_result may record
Results(c) ==
    {[challenger_id |-> c, model |-> ModelOf(c), answer |-> <<"a">>,
      timing |-> NewTiming(0), error |-> None, failed |-> FALSE],
     [challenger_id |-> c, model |-> ModelOf(c), answer |-> <<>>,
      timing |-> NewTiming(0), error |-> Some(<<"boom">>), failed |-> TRUE]}

\* A call of update_session_result, for a known or an unknown session id
record_result(sid, c, result) ==
    /\ sessions' = update_session_result(sessions, sid, c, result)
    /\ UNCHANGED <<nextId, created, sideVars, runSession, mpc, runnerVars,
                   event_queue, emitted, now, start_time>>

\* The operations on the registry: create, get, record a result, stream.
RegistryNext ==
    \/ \E req \in Requests :
          create_competition(req.question, req.resume, req.job_description)
    \/ \E sid \in SessionIds : status_request(sid)
    \/ \E sid \in SessionIds : \E c \in Challengers : \E result \in Results(c) :
          record_result(sid, c, result)
    \/ \E sid \in SessionIds : stream_competition(sid)
    \/ MergeStart
    \/ ConsumerDisconnect
    \/ \E i \in 1..MaxRestreams : OtherMergeStart(i)
    \/ \E i \in 1..MaxRestreams : OtherMergeEnd(i)

RegistrySpec == Init /\ [][RegistryNext]_vars

\* The session get_session returns holds the texts of the request that
\* created it; an id never created is not found.
C13_Retrievable ==
    \A sid \in SessionIds :
        IF sid \in DOMAIN created
        THEN /\ get_session(sessions, sid) # None
             /\ get_session(sessions, sid)[1].question = created[sid].question[1]
             /\ get_session(sessions, sid)[1].resume = created[sid].resume[1]
             /\ get_session(sessions, sid)[1].job_description
                    = created[sid].job_description[1]
        ELSE get_session(sessions, sid) = None

\* A step that creates a session leaves it with both result slots empty,
\* and no step removes a session.
C13_Step ==
    /\ DOMAIN sessions \subseteq DOMAIN sessions'
    /\ \A sid \in (DOMAIN sessions') \ (DOMAIN sessions) :
          /\ get_session(sessions', sid)[1].alpha_result = None
          /\ get_session(sessions', sid)[1].beta_result = None

\* C13: a created session is retrievable with exactly its question, resume
\* and job description, its result slots empty at creation; an id never
\* created is not found; no create, get, record or stream operation
\* removes a session.
C13_RegistryContract == []C13_Retrievable /\ [][C13_Step]_vars

\* A session was created, a result was recorded in it, and it was streamed
C13_Witness ==
    /\ 1 \in DOMAIN sessions
    /\ sessions[1].alpha_result # None
    /\ sessions[1].question = "q"
    /\ get_session(sessions, MaxSessions + 1) = None
    /\ mpc = "abandoned"

----------------------------------------------------------------------------
(* C14 *)

\* C14: for a session id that is not in the registry, the stream request
\* and the status request answer 404, and serving them changes nothing: no
\* run is created, no runner launched, no event emitted, the registry kept.
C14_UnknownSessionNotFound ==
    \A sid \in SessionIds :
        get_session(sessions, sid) = None =>
            /\ stream_competition_status(sid) = 404
            /\ get_competition_status(sid).status = 404
            /\ ENABLED stream_competition(sid)
            /\ ENABLED status_request(sid)
            /\ ~ENABLED <<stream_competition(sid)>>_vars
            /\ ~ENABLED <<status_request(sid)>>_vars

\* An unknown id can be requested while the registry holds a session whose
\* merge run is under way
C14_Witness ==
    /\ DOMAIN sessions # {}
    /\ get_session(sessions, MaxSessions + 1) = None
    /\ ENABLED first_stream_request(MaxSessions + 1)
    /\ mpc = "waiting"
    /\ Len(emitted) >= 1

----------------------------------------------------------------------------
(* C15 *)

\* A field that is missing or empty
Blank(f) == f = None \/ f = Some("")

\* C15: a creation request with a missing or empty question, resume or
\* job description is served by changing nothing, and no session of the
\* registry holds an empty text.
C15_InvalidRequestRejected ==
    /\ \A req \in Requests :
          (Blank(req.question) \/ Blank(req.resume) \/ Blank(req.job_description)) =>
              /\ ENABLED create_competition(req.question, req.resume,
                                            req.job_description)
              /\ ~ENABLED <<create_competition(req.question, req.resume,
                                               req.job_description)>>_vars
    /\ \A sid \in DOMAIN sessions :
          /\ sessions[sid].question # ""
          /\ sessions[sid].resume # ""
          /\ sessions[sid].job_description # ""
    /\ Cardinality(DOMAIN sessions) = nextId

\* Every valid request has been accepted, a run is over, and a request
\* without a question can still be made
C15_Witness ==
    /\ nextId = MaxSessions
    /\ mpc = "closed"
    /\ ENABLED create_competition(None, Some("r"), Some("j"))
    /\ ENABLED create_competition(Some(""), Some("r"), Some("j"))

----------------------------------------------------------------------------
(* C16, C17: the clock *)

\* time.time() returns a later value
Tick ==
    /\ now < MaxTime
    /\ now' = now + 1
    /\ UNCHANGED <<regVars, sideVars, runSession, mpc, runnerVars, event_queue,
                   emitted, start_time>>

\* The system clock is set back (by its administrator or by a time
\* synchronisation step): time.time() returns an earlier value than before.
ClockSetBack ==
    /\ now > 0
    /\ \E t \in 0..(now - 1) : now' = t
    /\ UNCHANGED <<regVars, sideVars, runSession, mpc, runnerVars, event_queue,
                   emitted, start_time>>

\* One run to its end, whose fragments and failure message are plain text;
\* what varies is the time at which each step is taken.
TimedRun ==
    \/ \E req \in ValidRequests :
          create_competition(req.question, req.resume, req.job_description)
    \/ \E sid \in 1..MaxSessions : first_stream_request(sid)
    \/ \E c \in Challengers : RunnerStart(c)
    \/ \E c \in Challengers : UpstreamChunk(c, <<"a">>)
    \/ \E c \in Challengers : UpstreamEnd(c)
    \/ \E c \in Challengers : UpstreamFail(c, <<"boom">>)
    \/ MergeStart
    \/ MergeGet
    \/ MergeTimeout
    \/ ConsumerNext

\* The run with a clock that only advances
MonotoneNext == TimedRun \/ Tick
MonotoneSpec == Init /\ [][MonotoneNext]_vars

\* The run with the clock time.time() reads
ClockNext == TimedRun \/ Tick \/ ClockSetBack
ClockSpec == Init /\ [][ClockNext]_vars

\* elapsed_ms of the chunk events of challenger c, in the order emitted
ElapsedOf(seq, c) ==
    LET s == SelectSeq(seq, LAMBDA ev : IsChunkOf(ev, c))
    IN  [k \in 1..Len(s) |-> s[k].elapsed_ms]

\* C16: for each challenger, the elapsed_ms values of its chunk events are
\* non-decreasing in the order the consumer receives them.
C16_ElapsedNonDecreasing ==
    \A c \in Challengers :
        LET el == ElapsedOf(emitted, c)
        IN  \A i, j \in 1..Len(el) : i < j => el[i] <= el[j]

\* C17: whenever a challenger's timing has both first_token_time and
\* complete_time, first_token_ms <= complete_ms.
C17_FirstTokenBeforeComplete ==
    \A c \in Challengers :
        (timing[c].first_token_time # None /\ timing[c].complete_time # None) =>
            first_token_ms(timing[c])[1] <= complete_ms(timing[c])[1]

----------------------------------------------------------------------------
(* C18: POST /competition/judge and comparator_service.evaluate_responses *)

MinScore == 1
MaxScore == 10

\* What the scoring call gives back: it raises ("raise"), its message has no
\* content ("none"), the content is not JSON ("text"), is JSON but not an
\* object ("list"), or is a JSON object, whose five members may each be
\* missing.
ScoringReply(kind, w, a, b, r, k) ==
    [kind |-> kind, winner |-> w, alpha_score |-> a, beta_score |-> b,
     reasoning |-> r, key_differentiator |-> k]

WinnerValues == {None, Some("alpha"), Some("beta"), Some("tie"), Some("first")}
ScoreValues == {None, Some(MinScore - 1), Some(MinScore), Some(MaxScore),
                Some(MaxScore + 1)}
TextValues == {None, Some("why")}

\* The members of an object that are missing or outside their type
Malformed(reply) ==
    (IF reply.winner \in {None, Some("first")} THEN {"winner"} ELSE {})
    \cup (IF reply.alpha_score \in {None, Some(MinScore - 1), Some(MaxScore + 1)}
          THEN {"alpha_score"} ELSE {})
    \cup (IF reply.beta_score \in {None, Some(MinScore - 1), Some(MaxScore + 1)}
          THEN {"beta_score"} ELSE {})
    \cup (IF reply.reasoning = None THEN {"reasoning"} ELSE {})
    \cup (IF reply.key_differentiator = None THEN {"key_differentiator"} ELSE {})

\* The replies drawn: every reply that is no object, and the objects in
\* which at most one member is malformed.
ScoringReplies ==
    {ScoringReply(kind, None, None, None, None, None) :
        kind \in {"raise", "none", "text", "list"}}
    \cup {reply \in {ScoringReply("object", w, a, b, r, k) :
                        w \in WinnerValues, a \in ScoreValues, b \in ScoreValues,
                        r \in TextValues, k \in TextValues} :
            Cardinality(Malformed(reply)) <= 1}

\* Judge requests: each text is required with min_length = 1
JudgeRequests == {[alpha_answer |-> a, beta_answer |-> "y"] : a \in {"", "x"}}

\* Judge calls: a request that fails validation never reaches the handler,
\* so no scoring call is made for it.
JudgeCalls ==
    {[request |-> req, reply |-> reply] :
        req \in {r \in JudgeRequests : r.alpha_answer # ""},
        reply \in ScoringReplies}
    \cup {[request |-> req,
           reply |-> ScoringReply("raise", None, None, None, None, None)] :
            req \in {r \in JudgeRequests : r.alpha_answer = ""}}

\* Mutant of ValidScore: the upper limit of the scale is not checked
ValidScore_NoUpperLimit(sc) == sc # None /\ sc[1] >= MinScore

\* alpha_score / beta_score: int, required, ge = 1, le = 10
ValidScore(sc) == sc # None /\ sc[1] >= MinScore /\ sc[1] <= MaxScore

\* winner: Literal["alpha", "beta", "tie"], required
ValidWinner(w) == w \in {Some("alpha"), Some("beta"), Some("tie")}

\* EvaluationResult(**result_data) succeeds
ValidEvaluation(reply) ==
    /\ ValidWinner(reply.winner)
    /\ ValidScore(reply.alpha_score)
    /\ ValidScore(reply.beta_score)
    /\ reply.reasoning # None
    /\ reply.key_differentiator # None

\* evaluate_responses: the EvaluationResult, or the exception it raises.
\* JSONDecodeError is turned into ValueError; pydantic's ValidationError is
\* a ValueError; every other exception is raised again as it is.
evaluate_responses(reply) ==
    CASE reply.kind = "raise" -> [raised |-> "APIError"]
      [] reply.kind = "none" -> [raised |-> "TypeError"]
      [] reply.kind = "text" -> [raised |-> "ValueError"]
      [] reply.kind = "list" -> [raised |-> "TypeError"]
      [] OTHER ->
            IF ValidEvaluation(reply)
            THEN [raised |-> "",
                  winner |-> reply.winner[1],
                  reasoning |-> reply.reasoning[1],
                  alpha_score |-> reply.alpha_score[1],
                  beta_score |-> reply.beta_score[1],
                  key_differentiator |-> reply.key_differentiator[1]]
            ELSE [raised |-> "ValueError"]

\* What judge_competition answers for a request and the scoring call's reply
JudgeAnswer(req, reply) ==
    IF Len(req.alpha_answer) < 1 \/ Len(req.beta_answer) < 1
    THEN [status |-> 422]
    ELSE LET ev == evaluate_responses(reply)
         IN  IF ev.raised = ""
             THEN [status |-> 200, winner |-> ev.winner,
                   reasoning |-> ev.reasoning,
                   alpha_score |-> ev.alpha_score,
                   beta_score |-> ev.beta_score,
                   key_differentiator |-> ev.key_differentiator]
             ELSE IF ev.raised = "ValueError"
                  THEN [status |-> 422]
                  ELSE [status |-> 500]

\* POST /competition/judge
judge_competition(req, reply) ==
    /\ judgeIn' = Some([request |-> req, reply |-> reply])
    /\ judgeOut' = Some(JudgeAnswer(req, reply))
    /\ UNCHANGED <<regVars, others, runSession, mpc, runnerVars, event_queue,
                   emitted, now, start_time>>

\* Judge calls made before, while and after a merge run delivers fragments
JudgeNext ==
    \/ \E req \in ValidRequests :
          create_competition(req.question, req.resume, req.job_description)
    \/ \E sid \in 1..MaxSessions : first_stream_request(sid)
    \/ MergeStart
    \/ \E c \in Challengers : RunnerStart(c)
    \/ \E c \in Challengers : UpstreamChunk(c, <<"a">>)
    \/ MergeGet
    \/ ConsumerNext
    \/ \E call \in JudgeCalls : judge_competition(call.request, call.reply)

JudgeSpec == Init /\ [][JudgeNext]_vars

\* The answer of the last judge call is a decision exactly when its request
\* is valid and the reply is an object with an allowed winner, both scores
\* on the scale and both texts; the decision repeats the reply's values.
C18_DecisionOnlyWhenWellFormed ==
    judgeOut # None =>
        LET req == judgeIn[1].request
            reply == judgeIn[1].reply
            out == judgeOut[1]
            wellFormed ==
                /\ reply.kind = "object"
                /\ reply.winner \in {Some("alpha"), Some("beta"), Some("tie")}
                /\ reply.alpha_score # None /\ reply.alpha_score[1] \in 1..10
                /\ reply.beta_score # None /\ reply.beta_score[1] \in 1..10
                /\ reply.reasoning # None
                /\ reply.key_differentiator # None
        IN  /\ out.status \in {200, 422, 500}
            /\ out.status = 200 <=> (wellFormed /\ req.alpha_answer # ""
                                     /\ req.beta_answer # "")
            /\ out.status = 200 =>
                  /\ out.winner = reply.winner[1]
                  /\ out.alpha_score = reply.alpha_score[1]
                  /\ out.beta_score = reply.beta_score[1]

\* A step that answers a judge call changes neither the registry nor the
\* merge run.
C18_JudgeStep ==
    (judgeIn' # judgeIn \/ judgeOut' # judgeOut) =>
        UNCHANGED <<regVars, others, runSession, mpc, runnerVars, event_queue,
                    emitted, start_time>>

\* C18: a judge call answers with a decision only when the scoring reply is
\* well-formed (winner alpha, beta or tie; both scores in 1..10), answers
\* every malformed reply with a failure, and changes no state of the
\* registry or of a merge run in flight.
C18_JudgeContract == []C18_DecisionOnlyWhenWellFormed /\ [][C18_JudgeStep]_vars

\* While a merge run is in flight, one with fragments still in its queue,
\* a judge call was answered with a failure for a score above the scale
C18_Witness ==
    /\ mpc = "waiting"
    /\ Len(event_queue) >= 1
    /\ judgeOut = Some([status |-> 422])
    /\ judgeIn[1].reply.kind = "object"
    /\ judgeIn[1].reply.alpha_score = Some(MaxScore + 1)
    /\ judgeIn[1].request.alpha_answer = "x"

\* While a merge run is in flight a judge call was answered with a decision
C18_WitnessDecision ==
    /\ mpc = "waiting"
    /\ judgeOut # None
    /\ judgeOut[1].status = 200
    /\ judgeOut[1].winner = "tie"

----------------------------------------------------------------------------
(* C19 *)

\* C19: for each challenger the stream holds at most one error event, and
\* no chunk event of a challenger follows an error event of that challenger.
C19_OneErrorThenNoChunk ==
    \A c \in Challengers :
        /\ Cardinality(Positions(emitted, LAMBDA ev : IsErrorOf(ev, c))) <= 1
        /\ \A i, j \in 1..Len(emitted) :
              (i < j /\ IsErrorOf(emitted[i], c)) => ~IsChunkOf(emitted[j], c)

\* The same for endpoints whose fragments never begin with the marker
C19_PlainText ==
    (\A c \in Challengers : \A i \in 1..Len(delivered[c]) : IsPlain(delivered[c][i]))
        => C19_OneErrorThenNoChunk

----------------------------------------------------------------------------
(* C20 *)

\* C20: a challenger whose producer ended normally is reported by the
\* complete event as not failed, without error, with the concatenation of
\* the delivered fragments as its answer, and each delivered fragment was
\* emitted as a chunk event.
C20_NormalEndNeverFailed ==
    \A c \in Challengers :
        (StreamEnded /\ rpc[c] = "completed") =>
            /\ TheComplete.timing[c].failed = FALSE
            /\ TheComplete.timing[c].error = None
            /\ TheComplete.answers[c] = Some(Concat(delivered[c]))
            /\ ChunkContents(emitted, c) = delivered[c]

\* The same for endpoints whose fragments never begin with the marker
C20_PlainText ==
    (\A c \in Challengers : \A i \in 1..Len(delivered[c]) : IsPlain(delivered[c][i]))
        => C20_NormalEndNeverFailed

----------------------------------------------------------------------------
(* C21 *)

Terminal(c) == rpc[c] \in {"completed", "failed"}

\* The chunk and error events of challenger c in seq, in order
EventsOf(seq, c) ==
    SelectSeq(seq, LAMBDA ev : ev.type # "complete" /\ ev.challenger = c)

\* A runner is terminal exactly when its complete_time and its completion
\* flag are set, and has a first_token_time exactly when a fragment arrived.
C21_LifecycleState ==
    \A c \in Challengers :
        /\ Terminal(c) <=> timing[c].complete_time # None
        /\ Terminal(c) <=> complete[c]
        /\ timing[c].first_token_time # None <=> delivered[c] # <<>>

\* Each step moves a runner along idle, streaming, completed or failed only,
\* leaves a first_token_time or complete_time that is set as it is, and
\* leaves the timing, answer, error and events of a terminal runner as
\* they are.
C21_LifecycleStep ==
    \A c \in Challengers :
        /\ \/ rpc'[c] = rpc[c]
           \/ <<rpc[c], rpc'[c]>> \in {<<"none", "idle">>, <<"idle", "streaming">>,
                                       <<"streaming", "completed">>,
                                       <<"streaming", "failed">>}
        /\ timing[c].first_token_time # None =>
              timing'[c].first_token_time = timing[c].first_token_time
        /\ timing[c].complete_time # None =>
              timing'[c].complete_time = timing[c].complete_time
        /\ Terminal(c) =>
              /\ rpc'[c] = rpc[c]
              /\ timing'[c] = timing[c]
              /\ answer'[c] = answer[c]
              /\ error'[c] = error[c]
              /\ complete'[c] = complete[c]
              /\ EventsOf(emitted' \o event_queue', c)
                    = EventsOf(emitted \o event_queue, c)

\* C21: a runner moves idle -> streaming -> completed or failed and stays
\* terminal; first_token_time is written at most once, complete_time exactly
\* once, at the end or the failure; a terminal runner puts no further event
\* and changes its timing, answer and error no more.
C21_RunnerLifecycle == []C21_LifecycleState /\ [][C21_LifecycleStep]_vars

\* alpha got two fragments at different times and ended later still, beta
\* failed, and the stream is over
C21_Witness ==
    /\ rpc["alpha"] = "completed"
    /\ rpc["beta"] = "failed"
    /\ Len(delivered["alpha"]) = 2
    /\ timing["alpha"].first_token_time = Some(0)
    /\ timing["alpha"].complete_time = Some(MaxTime)
    /\ mpc = "closed"

----------------------------------------------------------------------------
(* C22 *)

\* C22: the complete event gives a total latency for every challenger whose
\* producer ended normally, whatever the number of fragments.
C22_NormalEndHasLatency ==
    \A c \in Challengers :
        (StreamEnded /\ rpc[c] = "completed") =>
            TheComplete.timing[c].complete_ms # None

\* The same for producers that delivered at least one fragment
C22_AtLeastOneFragment ==
    \A c \in Challengers :
        (StreamEnded /\ rpc[c] = "completed" /\ delivered[c] # <<>>) =>
            TheComplete.timing[c].complete_ms # None

----------------------------------------------------------------------------
(* C23 *)

\* The messages of c's error events in seq, in order
ErrorMessages(seq, c) ==
    LET s == SelectSeq(seq, LAMBDA ev : IsErrorOf(ev, c))
    IN  [i \in 1..Len(s) |-> s[i].message]

\* C23: in the complete event a challenger's failed flag is true exactly
\* when an error event of that challenger precedes it in the stream, and
\* its error is then the message of that challenger's (last) error event;
\* the other challenger's events have no part in it.
C23_FailedIffErrorEvent ==
    StreamEnded =>
        \A c \in Challengers :
            LET msgs == ErrorMessages(emitted, c)
                t == TheComplete.timing[c]
            IN  /\ t.failed <=> msgs # <<>>
                /\ msgs # <<>> => t.error = Some(msgs[Len(msgs)])
                /\ msgs = <<>> => t.error = None

\* alpha failed with an empty message while beta ended
\* normally: the stream holds alpha's error event and none of beta's
C23_Witness ==
    /\ StreamEnded
    /\ rpc["alpha"] = "failed" /\ rpc["beta"] = "completed"
    /\ ErrorMessages(emitted, "alpha") = << <<>> >>
    /\ ErrorMessages(emitted, "beta") = <<>>
    /\ TheComplete.timing["alpha"].failed
    /\ ~TheComplete.timing["beta"].failed

----------------------------------------------------------------------------
(* C24 *)

\* C24: the total_tokens the complete event reports for a challenger is the
\* number of that challenger's chunk events in the stream.
C24_TokensEqualChunks ==
    StreamEnded =>
        \A c \in Challengers :
            TheComplete.timing[c].total_tokens = Len(ChunkContents(emitted, c))

\* The same for endpoints whose fragments never begin with the marker
C24_PlainText ==
    (\A c \in Challengers : \A i \in 1..Len(delivered[c]) : IsPlain(delivered[c][i]))
        => C24_TokensEqualChunks

----------------------------------------------------------------------------
(* C25 *)

\* What run_challenger(c) and its generator write
Written(c) == <<answer[c], timing[c], timingRef[c], error[c], complete[c]>>

\* A step of the task of challenger c
RunnerAct(c) ==
    \/ RunnerStart(c)
    \/ \E content \in Contents : UpstreamChunk(c, content)
    \/ UpstreamEnd(c)
    \/ \E msg \in Messages : UpstreamFail(c, msg)
    \/ UpstreamHang(c)

\* Only the task of c changes c's answer, timing, error and flag, and it
\* changes nothing of the other challenger; once c's flag is set nothing of
\* c is written or put any more; the step that builds the complete event,
\* reading answers, timings and errors, is taken with both flags set.
C25_Step ==
    /\ \A c \in Challengers :
          /\ Written(c)' # Written(c) => RunnerAct(c)
          /\ RunnerAct(c) => Written(Other(c))' = Written(Other(c))
          /\ complete[c] =>
                /\ Written(c)' = Written(c)
                /\ EventsOf(emitted' \o event_queue', c)
                      = EventsOf(emitted \o event_queue, c)
    /\ (CompleteEmitted' /\ ~CompleteEmitted) =>
          (complete["alpha"] /\ complete["beta"])

\* C25: each runner is the single writer of its own answer, timing, error
\* and completion flag; the coordinator reads them only after both flags
\* are set; a flag is set only after its runner's last write and last put.
C25_SingleWriterReadAfterCompletion == [][C25_Step]_vars

\* Both runners have written an answer, one has also written an error, and
\* the coordinator has read them into the complete event
C25_Witness ==
    /\ CompleteEmitted
    /\ answer["alpha"] # <<>>
    /\ answer["beta"] # <<>>
    /\ error["beta"] # None
    /\ TheComplete.answers["alpha"] = Some(answer["alpha"])

----------------------------------------------------------------------------
(* C26 *)

\* The runners' events in the order they were put: those the consumer has
\* received, then those still in the queue
PutSoFar == SelectSeq(emitted, LAMBDA ev : ~IsComplete(ev)) \o event_queue

\* Every fragment with content and every failure put one event, and once
\* the complete event is emitted the queue is empty.
C26_NothingLeft ==
    /\ \A c \in Challengers :
          Len(EventsOf(PutSoFar, c)) =
              Len(delivered[c]) + (IF rpc[c] = "failed" THEN 1 ELSE 0)
    /\ CompleteEmitted => event_queue = <<>>

\* A step leaves the sequence of put events as it is, wherever the events
\* are, or is a runner's put, which adds one event at its end.
C26_Step ==
    \/ PutSoFar' = PutSoFar
    \/ /\ Len(PutSoFar') = Len(PutSoFar) + 1
       /\ SubSeq(PutSoFar', 1, Len(PutSoFar)) = PutSoFar
       /\ \E c \in Challengers : RunnerAct(c)

\* C26: every event a runner puts on the queue reaches the consumer exactly
\* once, in the order of the puts and before the complete event: no get,
\* exit test or drain loses, repeats or leaves behind an event.
C26_ExactlyOnceDelivery == []C26_NothingLeft /\ [][C26_Step]_vars

\* The stream is over and the consumer has received three events of the
\* runners, of both challengers, before the complete event
C26_Witness ==
    /\ mpc = "closed"
    /\ Len(emitted) = 4
    /\ event_queue = <<>>
    /\ \A c \in Challengers : EventsOf(emitted, c) # <<>>

----------------------------------------------------------------------------
(* C27 *)

\* Registries update_session_result is applied to: the registry as it is,
\* and the registry with one more session in it
Registries ==
    {sessions} \cup
    {create_session(sessions, sid, "q2", "r2", "j2", now) :
        sid \in SessionIds \ DOMAIN sessions}

\* The result slot of challenger c in session ses
Slot(ses, c) == IF c = "alpha" THEN ses.alpha_result ELSE ses.beta_result

\* C27: update_session_result(sid, c, result) puts result in slot c of
\* session sid and leaves the other slot, the session's question, resume,
\* job description and creation time and every other session as they are;
\* for an id that is not in the registry it changes nothing.
C27_OverwritesOneSlot ==
    \A reg \in Registries : \A sid \in SessionIds : \A c \in Challengers :
        \A result \in Results(c) :
            LET out == update_session_result(reg, sid, c, result)
            IN  IF sid \in DOMAIN reg
                THEN /\ DOMAIN out = DOMAIN reg
                     /\ Slot(out[sid], c) = Some(result)
                     /\ Slot(out[sid], Other(c)) = Slot(reg[sid], Other(c))
                     /\ out[sid].question = reg[sid].question
                     /\ out[sid].resume = reg[sid].resume
                     /\ out[sid].job_description = reg[sid].job_description
                     /\ out[sid].created_at = reg[sid].created_at
                     /\ \A o \in DOMAIN reg \ {sid} : out[o] = reg[o]
                ELSE out = reg

\* Both slots of a session hold a recorded result, so that a further call
\* overwrites one and must keep the other
C27_Witness ==
    /\ 1 \in DOMAIN sessions
    /\ sessions[1].alpha_result # None
    /\ sessions[1].beta_result # None
    /\ sessions[1].alpha_result[1].failed
    /\ ~sessions[1].beta_result[1].failed
    /\ Cardinality(Registries) >= 2

----------------------------------------------------------------------------
(* C28 *)

\* Throughput of timing tm is undefined exactly when complete_time is not
\* recorded or the total latency is zero, and is otherwise total_tokens
\* over the total latency.
ThroughputAsSpecified(tm) ==
    /\ tokens_per_second(tm) = None
          <=> (tm.complete_time = None \/ complete_ms(tm) = Some(0))
    /\ tokens_per_second(tm) # None =>
          tokens_per_second(tm) = Some(<<tm.total_tokens, complete_ms(tm)[1]>>)

\* C28: a challenger's throughput is undefined exactly when its total
\* latency is zero or complete_time was never recorded, for every token
\* count >= 0, and is otherwise total_tokens / total latency.
C28_ThroughputDefined ==
    \A c \in Challengers : ThroughputAsSpecified(timing[c])

\* The same for timings that counted at least one token
C28_SomeTokens ==
    \A c \in Challengers :
        timing[c].total_tokens > 0 => ThroughputAsSpecified(timing[c])

====
